---- MODULE Spec2Model ----
(***************************************************************************)
(* DBSemaphore (python/despydmdb/dbsemaphore.py): a counting semaphore     *)
(* kept in the database.  Each client constructs one DBSemaphore object    *)
(* (__init__ = acquire) and later finalizes it (__del__ = release).  The   *)
(* stored procedures SEM_WAIT, SEM_DEQUEUE and SEM_SIGNAL and the session  *)
(* semantics of the store are not part of the repository; they are         *)
(* modelled from the collaborator contract of the specification.           *)
(***************************************************************************)
EXTENDS Integers, FiniteSets, Sequences, TLC

\* ------------------------------------------------------------------ bounds
NumClients == 2      \* concurrently running clients
MaxCap == 2          \* the semlock table holds 0..MaxCap rows for the name
MaxDel == 2          \* __del__ runs at most this often on one object
MaxFaults == 1       \* faults injected in one run, SEM_WAIT failures not counted

\* ------------------------------------------------------- program constants
MAXTRIES == 5        \* dbsemaphore.py line 63
PyNone == -1         \* self.slot = None (line 33, line 117)
NullVar == 0         \* curs.var(cx_Oracle.NUMBER): a bind variable holding no value

Clients == 1..NumClients
NoSession == <<0, 0>>

VARIABLES
    cap,        \* select count(*) from semlock where name = semname
    pc,         \* pc[c]: where client c stands in __init__ / __del__
    err,        \* err[c]: what __init__ raised ("none" if nothing)
    dbh,        \* dbh[c]: index of the session self.dbh (0: none yet)
    dbhOpen,    \* dbhOpen[c]: is the session self.dbh alive and open
    dbh2,       \* dbh2[c]: the second connection of the grant step
    slot,       \* slot[c]: self.slot (PyNone, NullVar or a slot number)
    done,       \* done[c]: the local 'done' of __init__
    trycnt,     \* trycnt[c]: the local 'trycnt' of __init__
    id,         \* id[c]: self.id (0: not assigned)
    seq,        \* next value of seminfo_seq
    rows,       \* the committed seminfo table, by id
    clock,      \* clock[c]: the database clock as c's sessions read it with
                \* get_current_timestamp_str (it only moves forward; the
                \* model keeps the order of the readings of one client)
    holder,     \* authority: holder[s] is the session holding slot s
    queue,      \* authority: sessions with a wait entry
    nWait,      \* nWait[c]: SEM_WAIT calls issued by c
    nDeq,       \* nDeq[c]: SEM_DEQUEUE calls completed by c
    nSig,       \* nSig[c]: SEM_SIGNAL calls issued by c
    waitOn,     \* waitOn[c]: session index of c's latest SEM_WAIT
    deqOn,      \* deqOn[c]: session index of c's latest SEM_DEQUEUE
    sigOn,      \* sigOn[c]: session index and argument of c's latest SEM_SIGNAL
    got,        \* got[c]: the slot SEM_WAIT returned to c (0: none)
    grantOn,    \* grantOn[c]: the session that committed c's grant record
    heldCommit, \* heldCommit[c]: c committed on a session holding a slot
    ndel,       \* ndel[c]: __del__ runs started on c's object
    delErr,     \* delErr[c]: outcome of the latest __del__ run
    faults      \* faults injected so far, SEM_WAIT failures not counted

vars == <<cap, pc, err, dbh, dbhOpen, dbh2, slot, done, trycnt, id, seq, rows,
          clock, holder, queue, nWait, nDeq, nSig, waitOn, deqOn, sigOn, got,
          grantOn, heldCommit, ndel, delErr, faults>>

clientVars == <<err, dbh, dbhOpen, dbh2, slot, done, trycnt, id, ndel, delErr>>
logVars == <<nWait, nDeq, nSig, waitOn, deqOn, sigOn, got, grantOn, heldCommit>>
authVars == <<holder, queue>>
dbVars == <<seq, rows, clock>>

\* ------------------------------------------------------------ the seminfo table
NoRow == [present |-> FALSE, request_time |-> 0, num_slots |-> 0,
          num_requests |-> 0, grant_time |-> 0, slot |-> 0, release_time |-> 0]

\* variant: request_time is stamped by a clock that runs ahead of the
\* one that stamps grant_time
NewRowSkewedClock(now, n) ==
    [present |-> TRUE, request_time |-> now + 2, grant_time |-> 0,
     release_time |-> 0, num_slots |-> n, num_requests |-> 0, slot |-> 0]

\* basic_insert_row('seminfo', {id, name, request_time, task_id, num_slots})
NewRow(now, n) == [present |-> TRUE, request_time |-> now, num_slots |-> n,
                   num_requests |-> 0, grant_time |-> 0, slot |-> 0,
                   release_time |-> 0]

\* variant: the bind variable itself, not its value, reaches the column
ColumnValueNull(v) == 0

\* the value a bind variable / python value stores in a NUMBER column
ColumnValue(v) == IF v > 0 THEN v ELSE 0

\* ------------------------------------------------------------ the authority
Slots == 1..cap
Session(c) == <<c, dbh[c]>>
FreeSlots == {s \in Slots : holder[s] = NoSession}

\* a session ends or commits: every lock it holds is released
ReleaseLocks(h, sess) == [s \in DOMAIN h |-> IF h[s] = sess THEN NoSession ELSE h[s]]

\* SEM_SIGNAL(name, s) on session sess: the slot goes back to the pool
SignalSlot(h, sess, s) ==
    [x \in DOMAIN h |-> IF x = s /\ h[x] = sess THEN NoSession ELSE h[x]]

\* session sess holds a slot
HoldsLock(h, sess) == \E s \in DOMAIN h : h[s] = sess

\* SEM_DEQUEUE(name) by requester c: drops the wait entries of c
DequeueEntries(q, c) == {e \in q : e[1] # c}

\* ------------------------------------------------------------ initial state
Init ==
    /\ cap \in 0..MaxCap
    /\ pc = [c \in Clients |-> "new"]
    /\ err = [c \in Clients |-> "none"]
    /\ dbh = [c \in Clients |-> 0]
    /\ dbhOpen = [c \in Clients |-> FALSE]
    /\ dbh2 = [c \in Clients |-> "none"]
    /\ slot = [c \in Clients |-> PyNone]
    /\ done = [c \in Clients |-> FALSE]
    /\ trycnt = [c \in Clients |-> 1]
    /\ id = [c \in Clients |-> 0]
    /\ seq = 1
    /\ rows = [i \in Clients |-> NoRow]
    /\ clock = [c \in Clients |-> 1]
    /\ holder = [s \in 1..cap |-> NoSession]
    /\ queue = {}
    /\ nWait = [c \in Clients |-> 0]
    /\ nDeq = [c \in Clients |-> 0]
    /\ nSig = [c \in Clients |-> 0]
    /\ waitOn = [c \in Clients |-> 0]
    /\ deqOn = [c \in Clients |-> 0]
    /\ sigOn = [c \in Clients |-> <<0, PyNone>>]
    /\ got = [c \in Clients |-> 0]
    /\ grantOn = [c \in Clients |-> NoSession]
    /\ heldCommit = [c \in Clients |-> FALSE]
    /\ ndel = [c \in Clients |-> 0]
    /\ delErr = [c \in Clients |-> "none"]
    /\ faults = 0

\* ------------------------------------------------------------ __init__
\* variant of the catalog check that only rejects a negative count
NoLocksNegative == cap < 0

\* line 50: if num_slots == 0
NoLocks == cap = 0

\* lines 29-52: open the connection, count the semlock rows of the name
Connect(c) ==
    /\ pc[c] = "new"
    /\ dbh' = [dbh EXCEPT ![c] = 1]
    /\ dbhOpen' = [dbhOpen EXCEPT ![c] = TRUE]
    /\ IF NoLocks
       THEN /\ pc' = [pc EXCEPT ![c] = "failed"]
            /\ err' = [err EXCEPT ![c] = "ValueError"]
       ELSE /\ pc' = [pc EXCEPT ![c] = "request"]
            /\ err' = err
    /\ UNCHANGED <<cap, dbh2, slot, done, trycnt, id, ndel, delErr, faults>>
    /\ UNCHANGED <<logVars, authVars, dbVars>>

\* variant of the loop condition that forgets 'not done'
LoopCondIgnoresDone(d, t) == t <= MAXTRIES

\* variant: the loop bound is off by one
LoopCondOffByOne(d, t) == ~d /\ t <= MAXTRIES + 1

\* line 65: while not done and trycnt <= MAXTRIES
LoopCond(d, t) == ~d /\ t <= MAXTRIES

\* lines 65, 90: where __init__ goes once an iteration has ended
AfterIteration(d, t) ==
    IF LoopCond(d, t) THEN "loop" ELSE IF d THEN "grant" ELSE "alive"

\* variant: the request row is inserted but not committed before the loop
RequestRowNoCommit(c) ==
    /\ pc[c] = "request"
    /\ id' = [id EXCEPT ![c] = seq]
    /\ seq' = seq + 1
    /\ clock' = [clock EXCEPT ![c] = @ + 1]
    /\ slot' = [slot EXCEPT ![c] = NullVar]
    /\ done' = [done EXCEPT ![c] = FALSE]
    /\ trycnt' = [trycnt EXCEPT ![c] = 1]
    /\ pc' = [pc EXCEPT ![c] = AfterIteration(FALSE, 1)]
    /\ UNCHANGED <<cap, err, dbh, dbhOpen, dbh2, ndel, delErr, faults, queue>>
    /\ UNCHANGED <<rows, holder, logVars>>

\* lines 54-64: take an id, insert the request row, commit, make the bind variable
RequestRow(c) ==
    /\ pc[c] = "request"
    /\ id' = [id EXCEPT ![c] = seq]
    /\ seq' = seq + 1
    /\ rows' = [rows EXCEPT ![seq] = NewRow(clock[c], cap)]
    /\ clock' = [clock EXCEPT ![c] = @ + 1]
    /\ holder' = ReleaseLocks(holder, Session(c))
    /\ slot' = [slot EXCEPT ![c] = NullVar]
    /\ done' = [done EXCEPT ![c] = FALSE]
    /\ trycnt' = [trycnt EXCEPT ![c] = 1]
    /\ pc' = [pc EXCEPT ![c] = AfterIteration(FALSE, 1)]
    /\ heldCommit' = [heldCommit EXCEPT ![c] = @ \/ HoldsLock(holder, Session(c))]
    /\ UNCHANGED <<cap, err, dbh, dbhOpen, dbh2, ndel, delErr, faults, queue>>
    /\ UNCHANGED <<nWait, nDeq, nSig, waitOn, deqOn, sigOn, got, grantOn>>

\* line 68, the call: SEM_WAIT is issued on self.dbh and the caller blocks
WaitCall(c) ==
    /\ pc[c] = "loop"
    /\ queue' = queue \cup {Session(c)}
    /\ nWait' = [nWait EXCEPT ![c] = @ + 1]
    /\ waitOn' = [waitOn EXCEPT ![c] = dbh[c]]
    /\ pc' = [pc EXCEPT ![c] = "inwait"]
    /\ UNCHANGED <<cap, faults, holder, nDeq, nSig, deqOn, sigOn, got, grantOn, heldCommit>>
    /\ UNCHANGED <<clientVars, dbVars>>

\* variant of the return of SEM_WAIT that leaves 'done' False
WaitReturnNotDone(c) ==
    /\ pc[c] = "inwait"
    /\ \E s \in FreeSlots :
        /\ holder' = [holder EXCEPT ![s] = Session(c)]
        /\ slot' = [slot EXCEPT ![c] = s]
        /\ got' = [got EXCEPT ![c] = s]
    /\ queue' = queue \ {Session(c)}
    /\ pc' = [pc EXCEPT ![c] = AfterIteration(done[c], trycnt[c])]
    /\ UNCHANGED <<cap, err, dbh, dbhOpen, dbh2, done, trycnt, id, ndel, delErr, faults>>
    /\ UNCHANGED <<nWait, nDeq, nSig, waitOn, deqOn, sigOn, grantOn, heldCommit, dbVars>>

\* lines 68-71, the return: the authority grants a free slot, done = True
WaitReturn(c) ==
    /\ pc[c] = "inwait"
    /\ \E s \in FreeSlots :
        /\ holder' = [holder EXCEPT ![s] = Session(c)]
        /\ slot' = [slot EXCEPT ![c] = s]
        /\ got' = [got EXCEPT ![c] = s]
    /\ queue' = queue \ {Session(c)}
    /\ done' = [done EXCEPT ![c] = TRUE]
    /\ pc' = [pc EXCEPT ![c] = AfterIteration(TRUE, trycnt[c])]
    /\ UNCHANGED <<cap, err, dbh, dbhOpen, dbh2, trycnt, id, ndel, delErr, faults>>
    /\ UNCHANGED <<nWait, nDeq, nSig, waitOn, deqOn, sigOn, grantOn, heldCommit, dbVars>>

\* lines 72-75: SEM_WAIT raises (the session died while waiting); the wait
\* entry of the dead session stays with the authority
WaitFail(c) ==
    /\ pc[c] = "inwait"
    /\ dbhOpen' = [dbhOpen EXCEPT ![c] = FALSE]
    /\ faults' = faults
    /\ pc' = [pc EXCEPT ![c] = "except"]
    /\ UNCHANGED <<cap, err, dbh, dbh2, slot, done, trycnt, id, ndel, delErr>>
    /\ UNCHANGED <<logVars, authVars, dbVars>>

\* variant of the handler that reconnects and retries without SEM_DEQUEUE
RecoverNoDequeue(c) ==
    /\ pc[c] = "except"
    /\ dbh' = [dbh EXCEPT ![c] = @ + 1]
    /\ dbhOpen' = [dbhOpen EXCEPT ![c] = TRUE]
    /\ slot' = [slot EXCEPT ![c] = NullVar]
    /\ trycnt' = [trycnt EXCEPT ![c] = @ + 1]
    /\ pc' = [pc EXCEPT ![c] = AfterIteration(done[c], trycnt[c] + 1)]
    /\ UNCHANGED <<cap, err, dbh2, done, id, ndel, delErr, faults>>
    /\ UNCHANGED <<logVars, authVars, dbVars>>

\* variant: after the last failed attempt the handler reconnects but leaves
\* out SEM_DEQUEUE
RecoverSkipsLastDequeue(c) ==
    /\ pc[c] = "except"
    /\ dbh' = [dbh EXCEPT ![c] = @ + 1]
    /\ dbhOpen' = [dbhOpen EXCEPT ![c] = TRUE]
    /\ slot' = [slot EXCEPT ![c] = NullVar]
    /\ IF trycnt[c] < MAXTRIES
       THEN /\ queue' = DequeueEntries(queue, c)
            /\ nDeq' = [nDeq EXCEPT ![c] = @ + 1]
            /\ deqOn' = [deqOn EXCEPT ![c] = dbh[c] + 1]
       ELSE UNCHANGED <<queue, nDeq, deqOn>>
    /\ trycnt' = [trycnt EXCEPT ![c] = @ + 1]
    /\ pc' = [pc EXCEPT ![c] = AfterIteration(done[c], trycnt[c] + 1)]
    /\ UNCHANGED <<cap, err, dbh2, done, id, ndel, delErr, faults>>
    /\ UNCHANGED <<holder, nWait, nSig, waitOn, sigOn, got, grantOn, heldCommit, dbVars>>

\* lines 77-88: a new connection replaces self.dbh, a new bind variable
\* self.slot, SEM_DEQUEUE on the new session, then trycnt += 1
Recover(c) ==
    /\ pc[c] = "except"
    /\ dbh' = [dbh EXCEPT ![c] = @ + 1]
    /\ dbhOpen' = [dbhOpen EXCEPT ![c] = TRUE]
    /\ slot' = [slot EXCEPT ![c] = NullVar]
    /\ queue' = DequeueEntries(queue, c)
    /\ nDeq' = [nDeq EXCEPT ![c] = @ + 1]
    /\ deqOn' = [deqOn EXCEPT ![c] = dbh[c] + 1]
    /\ trycnt' = [trycnt EXCEPT ![c] = @ + 1]
    /\ pc' = [pc EXCEPT ![c] = AfterIteration(done[c], trycnt[c] + 1)]
    /\ UNCHANGED <<cap, err, dbh2, done, id, ndel, delErr, faults>>
    /\ UNCHANGED <<holder, nWait, nSig, waitOn, sigOn, got, grantOn, heldCommit, dbVars>>

\* variant: the handler logs a failure of its own calls and goes on with the
\* next iteration of the loop
RecoverFailRetries(c) ==
    /\ pc[c] = "except"
    /\ \E connected \in BOOLEAN :
        IF connected
        THEN /\ dbh' = [dbh EXCEPT ![c] = @ + 1]
             /\ dbhOpen' = [dbhOpen EXCEPT ![c] = TRUE]
             /\ slot' = [slot EXCEPT ![c] = NullVar]
        ELSE UNCHANGED <<dbh, dbhOpen, slot>>
    /\ faults < MaxFaults
    /\ faults' = faults + 1
    /\ err' = [err EXCEPT ![c] = "RecoverError"]
    /\ trycnt' = [trycnt EXCEPT ![c] = @ + 1]
    /\ pc' = [pc EXCEPT ![c] = AfterIteration(done[c], trycnt[c] + 1)]
    /\ UNCHANGED <<cap, dbh2, done, id, ndel, delErr>>
    /\ UNCHANGED <<logVars, authVars, dbVars>>

\* line 78 raises (no new session), or line 85 raises on the new session: the
\* exception leaves __init__ from inside the handler
RecoverFail(c) ==
    /\ pc[c] = "except"
    /\ \E connected \in BOOLEAN :
        IF connected
        THEN /\ dbh' = [dbh EXCEPT ![c] = @ + 1]
             /\ dbhOpen' = [dbhOpen EXCEPT ![c] = TRUE]
             /\ slot' = [slot EXCEPT ![c] = NullVar]
        ELSE UNCHANGED <<dbh, dbhOpen, slot>>
    /\ faults < MaxFaults
    /\ faults' = faults + 1
    /\ err' = [err EXCEPT ![c] = "RecoverError"]
    /\ pc' = [pc EXCEPT ![c] = "failed"]
    /\ UNCHANGED <<cap, dbh2, done, trycnt, id, ndel, delErr>>
    /\ UNCHANGED <<logVars, authVars, dbVars>>

\* variant of the grant step that writes and commits on self.dbh
GrantOnHoldingSession(c) == Session(c)

\* variant: the grant is recorded on the session SEM_WAIT was called on
GrantOnWaitSession(c) == <<c, waitOn[c]>>

\* line 92/98: the session that writes and commits the grant (the second
\* connection dbh2 of the client, index 0, never a session that called SEM_WAIT)
GrantSession(c) == <<c, 0>>

\* variant of the grant step that counts the failed attempts only
GrantNumFailures(c) == trycnt[c] - 1

\* line 95: 'num_requests': trycnt
GrantNumRequests(c) == trycnt[c]

\* lines 92-98: record the grant on a second connection and commit there
GrantRecord(c) ==
    /\ pc[c] = "grant"
    /\ dbh2' = [dbh2 EXCEPT ![c] = "open"]
    /\ rows' = [rows EXCEPT ![id[c]] =
                    [@ EXCEPT !.grant_time = clock[c],
                              !.num_requests = GrantNumRequests(c),
                              !.slot = ColumnValue(slot[c])]]
    /\ clock' = [clock EXCEPT ![c] = @ + 1]
    /\ holder' = ReleaseLocks(holder, GrantSession(c))
    /\ grantOn' = [grantOn EXCEPT ![c] = GrantSession(c)]
    /\ heldCommit' = [heldCommit EXCEPT ![c] = @ \/ HoldsLock(holder, GrantSession(c))]
    /\ pc' = [pc EXCEPT ![c] = "alive"]
    /\ UNCHANGED <<cap, err, dbh, dbhOpen, slot, done, trycnt, id, ndel, delErr,
                   faults, seq, queue>>
    /\ UNCHANGED <<nWait, nDeq, nSig, waitOn, deqOn, sigOn, got>>

\* lines 92-98 raise: nothing is committed and the exception leaves __init__
GrantRecordFail(c) ==
    /\ pc[c] = "grant"
    /\ faults < MaxFaults
    /\ faults' = faults + 1
    /\ err' = [err EXCEPT ![c] = "GrantError"]
    /\ pc' = [pc EXCEPT ![c] = "failed"]
    /\ UNCHANGED <<cap, dbh, dbhOpen, dbh2, slot, done, trycnt, id, ndel, delErr>>
    /\ UNCHANGED <<logVars, authVars, dbVars>>

\* ------------------------------------------------------------ __del__
\* variant of __del__ without the test of self.slot
HasSlotAlways(c) == TRUE

\* line 104: if self.slot != None
HasSlot(c) == slot[c] # PyNone

\* __del__ runs on an object whose __init__ returned or raised, and may be
\* called again on an object already finalized
CanDel(c) == pc[c] \in {"alive", "failed", "deleted"} /\ ndel[c] < MaxDel

\* the calls of __del__ that may raise
DelSteps == {"signal", "audit", "close"}

\* line 108 is reached and SEM_SIGNAL returns
Signalled(c, f) == HasSlot(c) /\ dbhOpen[c] /\ "signal" \notin f

\* lines 110-113 are reached and the update and the commit return
Audited(c, f) == Signalled(c, f) /\ "audit" \notin f

\* variant: SEM_SIGNAL goes to the connection made at construction
SignalArgsFirstSession(c) == <<1, slot[c]>>

\* lines 107-108: the session and the slot argument of the SEM_SIGNAL call
SignalArgs(c) == <<dbh[c], slot[c]>>

\* the pool once SEM_SIGNAL has been called, where the calls in f raise
AfterSignal(h, c, f) ==
    IF Signalled(c, f)
    THEN SignalSlot(h, <<c, SignalArgs(c)[1]>>, SignalArgs(c)[2])
    ELSE h

\* line 113: the pool once the commit on self.dbh has been called
AfterCommit(h, c, f) == IF Audited(c, f) THEN ReleaseLocks(h, Session(c)) ELSE h

\* variant: closing the connection leaves its locks with the authority
CloseKeepsLocks(h, c, f) == h

\* line 118: the pool once self.dbh.close() has been called
AfterClose(h, c, f) == IF "close" \in f THEN h ELSE ReleaseLocks(h, Session(c))

\* lines 104-118: __del__, where the calls in f raise
Del(c, f) ==
    /\ CanDel(c)
    /\ ("signal" \in f) => (HasSlot(c) /\ dbhOpen[c])
    /\ ("audit" \in f) => Signalled(c, f)
    /\ ndel' = [ndel EXCEPT ![c] = @ + 1]
    /\ nSig' = [nSig EXCEPT ![c] = IF HasSlot(c) THEN @ + 1 ELSE @]
    /\ sigOn' = [sigOn EXCEPT ![c] = IF HasSlot(c) THEN SignalArgs(c) ELSE @]
    /\ rows' = IF Audited(c, f) /\ id[c] \in DOMAIN rows
               THEN [rows EXCEPT ![id[c]] = [@ EXCEPT !.release_time = clock[c]]]
               ELSE rows
    /\ clock' = IF Audited(c, f) THEN [clock EXCEPT ![c] = @ + 1] ELSE clock
    /\ holder' = AfterClose(AfterCommit(AfterSignal(holder, c, f), c, f), c, f)
    /\ heldCommit' = [heldCommit EXCEPT ![c] =
                        @ \/ (Audited(c, f)
                              /\ HoldsLock(AfterSignal(holder, c, f), Session(c)))]
    /\ queue' = IF "close" \in f THEN queue ELSE queue \ {Session(c)}
    /\ slot' = [slot EXCEPT ![c] = PyNone]
    /\ dbhOpen' = [dbhOpen EXCEPT ![c] = IF "close" \in f THEN @ ELSE FALSE]
    /\ delErr' = [delErr EXCEPT ![c] =
                    IF "close" \in f THEN "raised"
                    ELSE IF HasSlot(c) /\ ~Audited(c, f) THEN "logged"
                    ELSE "none"]
    /\ faults + Cardinality(f) <= MaxFaults
    /\ faults' = faults + Cardinality(f)
    /\ pc' = [pc EXCEPT ![c] = "deleted"]
    /\ UNCHANGED <<cap, err, dbh, dbh2, done, trycnt, id, seq>>
    /\ UNCHANGED <<nWait, nDeq, waitOn, deqOn, got, grantOn>>

\* ------------------------------------------------------------ specifications
Next ==
    \E c \in Clients :
        \/ Connect(c)
        \/ RequestRow(c)
        \/ WaitCall(c)
        \/ WaitReturn(c)
        \/ WaitFail(c)
        \/ Recover(c)
        \/ RecoverFail(c)
        \/ GrantRecord(c)
        \/ GrantRecordFail(c)
        \/ \E f \in SUBSET DelSteps : Del(c, f)

Spec == Init /\ [][Next]_vars

\* lines 42-98: a step of __init__
InitStep(c) ==
    \/ Connect(c)
    \/ RequestRow(c)
    \/ WaitCall(c)
    \/ WaitReturn(c)
    \/ WaitFail(c)
    \/ Recover(c)
    \/ RecoverFail(c)
    \/ GrantRecord(c)
    \/ GrantRecordFail(c)

\* the program with every fault, where a constructor that can take a step
\* takes one: a call of SEM_WAIT returns or fails
SpecProgress ==
    /\ Init
    /\ [][Next]_vars
    /\ \A c \in Clients : WF_vars(InitStep(c))

\* the same program when the environment injects no fault at all
StepNoFault(c) ==
    \/ Connect(c)
    \/ RequestRow(c)
    \/ WaitCall(c)
    \/ WaitReturn(c)
    \/ GrantRecord(c)
    \/ Del(c, {})

NextNoFault == \E c \in Clients : StepNoFault(c)

\* every client keeps running, the authority answers a WAIT it can answer,
\* and every object is finalized
SpecNoFault ==
    Init /\ [][NextNoFault]_vars /\ \A c \in Clients : WF_vars(StepNoFault(c))

\* ------------------------------------------------------------ properties
\* client c holds a granted slot: SEM_WAIT returned it to c and __del__ has
\* not run on c's object since
Holding(c) == slot[c] \in Slots
Holders == {c \in Clients : Holding(c)}
Started == {c \in Clients : pc[c] # "new"}
RowOf(c) == rows[id[c]]

\* C1: at any moment at most cap clients hold a granted slot, and no slot
\* number is held by two clients at once, whatever SEM_WAIT failures and
\* exhausted retries occur.
C1_BoundedHolders ==
    /\ Cardinality(Holders) <= cap
    /\ \A c1, c2 \in Holders : c1 # c2 => slot[c1] # slot[c2]

\* every slot is held, one more client is blocked in a retried SEM_WAIT
C1_Witness ==
    /\ cap >= 1
    /\ Cardinality(Holders) = cap
    /\ \E c \in Clients : pc[c] = "inwait" /\ nWait[c] > 1

\* C2: a client stays blocked in SEM_WAIT while every slot is held (it leaves
\* the wait only in a state with a free slot), and when no session dies every
\* client blocked in SEM_WAIT is eventually granted a slot, the holders
\* releasing in turn.
C2_BlockedThenGranted ==
    /\ [][\A c \in Clients :
            (pc[c] = "inwait" /\ pc'[c] # "inwait") => FreeSlots # {}]_vars
    /\ \A c \in Clients : (pc[c] = "inwait") ~> Holding(c)

\* cap + 1 acquisitions: cap clients hold, the last one is blocked
C2_Witness ==
    /\ cap >= 1
    /\ FreeSlots = {}
    /\ Cardinality(Holders) = cap
    /\ \E c \in Clients : pc[c] = "inwait" /\ ~Holding(c)

\* C3: with no fault injected and no more acquisitions than slots, no
\* acquisition fails or has to wait for a release, every acquisition that
\* has left SEM_WAIT holds a slot of the pool until it is released, and the
\* slots held are pairwise distinct.
C3_AllSucceedDistinct ==
    (cap > 0 /\ Cardinality(Started) <= cap) =>
        /\ \A c \in Clients :
            /\ pc[c] # "failed" /\ err[c] = "none"
            /\ pc[c] = "inwait" => FreeSlots # {}
            /\ pc[c] \in {"grant", "alive"} => (done[c] /\ slot[c] \in Slots)
            /\ pc[c] = "deleted" => done[c]
        /\ \A c1, c2 \in Holders : c1 # c2 => slot[c1] # slot[c2]

\* as many acquisitions as slots, all granted at once
C3_Witness ==
    /\ cap = NumClients
    /\ \A c \in Clients : pc[c] = "alive" /\ Holding(c)
    /\ Cardinality({slot[c] : c \in Clients}) = NumClients

\* every configured SEM_WAIT attempt of c has failed and the retry loop is over
Exhausted(c) ==
    /\ nWait[c] = MAXTRIES
    /\ ~done[c]
    /\ pc[c] \in {"alive", "failed", "deleted"}
    /\ trycnt[c] > MAXTRIES

\* C4: when all MAXTRIES attempts of an acquisition have failed, acquire
\* raises (no object is handed to the caller) and the requester holds no slot
\* then or later.
C4_ExhaustedRaises ==
    \A c \in Clients :
        Exhausted(c) =>
            /\ err[c] # "none"
            /\ ~Holding(c)
            /\ \A s \in Slots : holder[s][1] # c

\* C5: after an acquisition whose MAXTRIES attempts all failed, its request
\* row has num_requests = MAXTRIES and no grant_time.
C5_ExhaustedRow ==
    \A c \in Clients :
        Exhausted(c) =>
            /\ RowOf(c).present
            /\ RowOf(c).num_requests = MAXTRIES
            /\ RowOf(c).grant_time = 0

\* C6: for a name without semlock rows acquire raises at once: no SEM_WAIT,
\* SEM_DEQUEUE or SEM_SIGNAL is ever called, no seminfo row and no sequence
\* value is taken, and the authority's pool and queue stay as they were.
C6_NotFoundNoEffect ==
    cap = 0 =>
        /\ \A c \in Clients :
            /\ nWait[c] = 0 /\ nDeq[c] = 0 /\ nSig[c] = 0
            /\ id[c] = 0
            /\ pc[c] \in {"new", "failed", "deleted"}
            /\ pc[c] # "new" => err[c] = "ValueError"
        /\ \A i \in DOMAIN rows : rows[i] = NoRow
        /\ seq = 1
        /\ queue = {}
        /\ \A s \in DOMAIN holder : holder[s] = NoSession

\* a client asked for a name without slots, was refused, and was finalized
C6_Witness ==
    /\ cap = 0
    /\ \E c \in Clients : pc[c] = "deleted" /\ err[c] = "ValueError"

\* a __del__ run on an object that __del__ already finalized
RepeatedDel(c) == pc[c] = "deleted" /\ ndel'[c] = ndel[c] + 1

\* C7: SEM_SIGNAL is issued at most once per object, and when no fault is
\* injected a repeated __del__ raises nothing and leaves the pool, the wait
\* queue, the seminfo rows and the SEM_SIGNAL log as the first one left them.
C7_ReleaseIdempotent ==
    /\ [](\A c \in Clients : nSig[c] <= 1)
    /\ [](\A c \in Clients : faults = 0 => delErr[c] = "none")
    /\ [][\A c \in Clients :
            (RepeatedDel(c) /\ faults' = 0) =>
                /\ holder' = holder
                /\ queue' = queue
                /\ rows' = rows
                /\ nSig' = nSig
                /\ sigOn' = sigOn]_vars

\* a granted object released twice, the single SEM_SIGNAL and the
\* release_time written by the first release
C7_Witness ==
    \E c \in Clients :
        /\ ndel[c] = 2
        /\ done[c]
        /\ faults = 0
        /\ nSig[c] = 1
        /\ RowOf(c).release_time > 0

\* C8: __del__ of an object that was never granted a slot, because the
\* catalog check failed or because every SEM_WAIT attempt failed, issues no
\* SEM_SIGNAL and writes no release_time.
C8_NoSignalWithoutGrant ==
    \A c \in Clients :
        (err[c] = "ValueError" \/ Exhausted(c)) =>
            /\ nSig[c] = 0
            /\ id[c] # 0 => RowOf(c).release_time = 0

\* SEM_WAIT returned to c on its k-th call, after k - 1 failed calls, and
\* __init__ has returned
GrantedAfter(c, k) ==
    /\ done[c]
    /\ nWait[c] = k
    /\ err[c] = "none"
    /\ pc[c] \in {"alive", "deleted"}

\* C9: when the first k - 1 SEM_WAIT calls fail and the k-th returns a slot
\* (k in 1..MAXTRIES), no other fault being injected into the acquisition, it
\* succeeds and its request row holds num_requests = k, a grant_time and the
\* slot returned.
C9_NumRequestsIsAttempt ==
    \A c \in Clients :
        /\ (done[c] /\ faults = 0) => (err[c] = "none" /\ pc[c] # "failed")
        /\ \A k \in 1..MAXTRIES :
            GrantedAfter(c, k) =>
                /\ nDeq[c] = k - 1
                /\ RowOf(c).num_requests = k
                /\ RowOf(c).grant_time > 0
                /\ RowOf(c).slot \in Slots
                /\ Holding(c) => RowOf(c).slot = slot[c]

\* one failed attempt, then a grant: num_requests = 2
C9_Witness ==
    \E c \in Clients :
        /\ GrantedAfter(c, 2)
        /\ pc[c] = "alive"
        /\ RowOf(c).num_requests = 2
        /\ RowOf(c).grant_time > 0

\* C10: while a retried SEM_WAIT of c is pending, it was issued on the
\* session opened after the last failure (each attempt has a session of its
\* own), SEM_DEQUEUE has completed on that very session, once per failed
\* attempt, and the authority holds no wait entry of an earlier session of c.
C10_DequeueBeforeRetry ==
    \A c \in Clients :
        (pc[c] = "inwait" /\ nWait[c] > 1) =>
            /\ dbhOpen[c]
            /\ waitOn[c] = dbh[c]
            /\ dbh[c] = nWait[c]
            /\ deqOn[c] = dbh[c]
            /\ nDeq[c] = nWait[c] - 1
            /\ \A e \in queue : e[1] = c => e = Session(c)

\* the second SEM_WAIT is pending on the second session, after one SEM_DEQUEUE
C10_Witness ==
    \E c \in Clients :
        /\ pc[c] = "inwait"
        /\ nWait[c] = 2
        /\ deqOn[c] = 2
        /\ queue = {Session(c)}

\* C11: the grant record is written and committed on a second session, never
\* on the session SEM_WAIT was called on; no commit is ever issued on a
\* session while it holds a slot; so a handle that holds a slot number still
\* has the lock of that slot on its own session.
C11_GrantOnSecondSession ==
    \A c \in Clients :
        /\ grantOn[c] # NoSession =>
              /\ grantOn[c] # <<c, waitOn[c]>>
              /\ grantOn[c] # Session(c)
        /\ ~heldCommit[c]
        /\ Holding(c) => holder[slot[c]] = Session(c)

C11_Witness ==
    \E c \in Clients :
        /\ pc[c] = "alive"
        /\ nWait[c] > 1
        /\ grantOn[c] = <<c, 0>>
        /\ RowOf(c).grant_time > 0
        /\ Holding(c)
        /\ holder[slot[c]] = <<c, waitOn[c]>>

\* C12: __del__ never raises: whichever of its calls fails, the failure is
\* logged and swallowed.
C12_ReleaseNeverRaises == \A c \in Clients : delErr[c] # "raised"

\* C13: once __del__ has returned on an object whose SEM_WAIT succeeded, no
\* session of that object holds a slot, whether or not release_time was
\* written.
C13_SlotFreedByRelease ==
    \A c \in Clients :
        (pc[c] = "deleted" /\ done[c] /\ delErr[c] # "raised") =>
            /\ holder[got[c]][1] # c
            /\ \A s \in DOMAIN holder : holder[s][1] # c

C13_Witness ==
    \E c \in Clients :
        /\ pc[c] = "deleted"
        /\ done[c]
        /\ delErr[c] = "logged"
        /\ RowOf(c).grant_time > 0
        /\ RowOf(c).release_time = 0
        /\ got[c] \in FreeSlots

\* C14: in every row of seminfo, request_time is not later than grant_time
\* when both are set, and grant_time is not later than release_time when
\* both are set.
C14_TimesOrdered ==
    \A i \in DOMAIN rows :
        rows[i].present =>
            /\ (rows[i].request_time > 0 /\ rows[i].grant_time > 0) =>
                  rows[i].request_time <= rows[i].grant_time
            /\ (rows[i].grant_time > 0 /\ rows[i].release_time > 0) =>
                  rows[i].grant_time <= rows[i].release_time

C14_Witness ==
    \E i \in DOMAIN rows :
        /\ rows[i].present
        /\ rows[i].request_time > 0
        /\ rows[i].request_time < rows[i].grant_time
        /\ rows[i].grant_time < rows[i].release_time

\* C15: when the grant-recording step fails after SEM_WAIT has returned a
\* slot, __init__ does not raise: the caller gets an object that holds the
\* slot.
C15_GrantFailureSwallowed ==
    \A c \in Clients :
        (got[c] \in Slots /\ pc[c] \in {"alive", "failed"}) =>
            /\ pc[c] = "alive"
            /\ err[c] = "none"
            /\ Holding(c)

\* C16: once an acquisition has called SEM_WAIT, its request row is in the
\* committed table with an id no other acquisition has, request_time set and
\* num_slots equal to the capacity of the semaphore.
C16_RowBeforeFirstWait ==
    \A c \in Clients :
        nWait[c] > 0 =>
            /\ id[c] # 0
            /\ rows[id[c]].present
            /\ rows[id[c]].request_time > 0
            /\ rows[id[c]].num_slots = cap
            /\ \A c2 \in Clients \ {c} : id[c2] # id[c]

C16_Witness ==
    \E c \in Clients :
        /\ pc[c] = "inwait"
        /\ nWait[c] = 1
        /\ FreeSlots = {}
        /\ Session(c) \in queue
        /\ RowOf(c).present
        /\ RowOf(c).num_slots = cap
        /\ RowOf(c).grant_time = 0

\* C17: every row of seminfo has slot set exactly when it has grant_time set,
\* and a row without grant_time is not the row of an acquisition that
\* completed with a recorded grant.
C17_SlotIffGrantTime ==
    /\ \A i \in DOMAIN rows :
          rows[i].present => (rows[i].slot > 0 <=> rows[i].grant_time > 0)
    /\ \A c \in Clients :
          (id[c] # 0 /\ RowOf(c).grant_time = 0) =>
              \/ pc[c] \in {"loop", "inwait", "except", "grant"}
              \/ err[c] # "none"
              \/ ~done[c]

C17_Witness ==
    \E c \in Clients :
        /\ pc[c] = "alive"
        /\ RowOf(c).grant_time > 0
        /\ RowOf(c).slot = slot[c]
        /\ \E c2 \in Clients :
              /\ id[c2] # 0
              /\ RowOf(c2).grant_time = 0
              /\ RowOf(c2).slot = 0

\* C18: one acquisition calls SEM_WAIT at most MAXTRIES times; after the
\* last failed attempt it calls SEM_WAIT no more and __init__ ends; and when
\* every call of SEM_WAIT returns or fails, a started __init__ comes to its
\* end.
C18_BoundedTries ==
    /\ [](\A c \in Clients :
            /\ nWait[c] <= MAXTRIES
            /\ pc[c] \in {"loop", "inwait"} => trycnt[c] <= MAXTRIES
            /\ pc[c] = "loop" => nWait[c] < MAXTRIES
            /\ (nWait[c] = MAXTRIES /\ pc[c] \notin {"inwait", "except"}) =>
                  pc[c] \in {"grant", "alive", "failed", "deleted"})
    /\ \A c \in Clients :
          (pc[c] \in {"request", "loop", "inwait", "except", "grant"})
              ~> (pc[c] \in {"alive", "failed", "deleted"})

C18_Witness ==
    \E c \in Clients :
        /\ nWait[c] = MAXTRIES
        /\ nDeq[c] = MAXTRIES
        /\ trycnt[c] = MAXTRIES + 1
        /\ ~done[c]
        /\ pc[c] = "alive"

\* C19: for an object whose SEM_WAIT succeeded, self.dbh is the session that
\* SEM_WAIT was called on, the lock of the returned slot is on that session
\* while the object holds it, and __del__ calls SEM_SIGNAL on that session
\* with the slot SEM_WAIT returned.
C19_SignalOnGrantSession ==
    \A c \in Clients :
        done[c] =>
            /\ got[c] \in Slots
            /\ dbh[c] = waitOn[c]
            /\ Holding(c) => (slot[c] = got[c] /\ holder[got[c]] = Session(c))
            /\ nSig[c] > 0 => sigOn[c] = <<waitOn[c], got[c]>>

C19_Witness ==
    \E c \in Clients :
        /\ done[c]
        /\ pc[c] = "deleted"
        /\ nWait[c] > 1
        /\ dbh[c] > 1
        /\ nSig[c] = 1
        /\ sigOn[c] = <<dbh[c], got[c]>>

\* C20: the holding session stays open while the object holds its slot, and
\* the session opened for the grant record is closed once __init__ has
\* returned, so none is left open after __del__.
C20_SessionsClosed ==
    \A c \in Clients :
        /\ (Holding(c) /\ pc[c] = "alive") => dbhOpen[c]
        /\ pc[c] \in {"alive", "deleted"} => dbh2[c] # "open"

\* C21: when the reconnect or the SEM_DEQUEUE call of the except branch
\* fails, the error leaves __init__ at once: the acquisition is over with
\* trycnt as it was, SEM_WAIT is never called again although attempts may
\* remain, and the request row has no grant_time.
C21_RecoverFailureLeaves ==
    /\ [](\A c \in Clients :
            err[c] = "RecoverError" =>
                /\ pc[c] \in {"failed", "deleted"}
                /\ ~done[c]
                /\ got[c] = 0
                /\ trycnt[c] = nWait[c]
                /\ trycnt[c] <= MAXTRIES
                /\ RowOf(c).present
                /\ RowOf(c).grant_time = 0)
    /\ [][\A c \in Clients :
            err[c] = "RecoverError" =>
                (nWait'[c] = nWait[c] /\ err'[c] = "RecoverError")]_vars

C21_Witness ==
    \E c \in Clients :
        /\ err[c] = "RecoverError"
        /\ pc[c] = "failed"
        /\ nWait[c] = 1
        /\ trycnt[c] < MAXTRIES
        /\ RowOf(c).grant_time = 0

\* C22: every row of seminfo that has release_time set has grant_time set:
\* __del__ writes no release_time for an acquisition that was not granted.
C22_ReleaseImpliesGrant ==
    \A i \in DOMAIN rows :
        (rows[i].present /\ rows[i].release_time > 0) => rows[i].grant_time > 0

\* the SEM_WAIT calls of c that have raised
FailedWaits(c) ==
    nWait[c] - (IF done[c] THEN 1 ELSE 0) - (IF pc[c] = "inwait" THEN 1 ELSE 0)

\* C23: every failed SEM_WAIT is followed by a SEM_DEQUEUE, the last one
\* too: outside the except branch the SEM_DEQUEUE calls of an acquisition
\* are as many as its failed SEM_WAIT calls (one fewer while the branch runs
\* or when the branch itself failed), and an acquisition that ended with its
\* tries exhausted has made MAXTRIES of each and has no entry in the wait
\* queue.
C23_DequeueAfterEveryFailure ==
    \A c \in Clients :
        /\ nDeq[c] = IF pc[c] = "except" \/ err[c] = "RecoverError"
                     THEN FailedWaits(c) - 1
                     ELSE FailedWaits(c)
        /\ Exhausted(c) =>
              /\ FailedWaits(c) = MAXTRIES
              /\ nDeq[c] = MAXTRIES
              /\ \A e \in queue : e[1] # c

C23_Witness ==
    \E c \in Clients :
        /\ Exhausted(c)
        /\ faults = 0
        /\ FreeSlots = {}
        /\ nDeq[c] = MAXTRIES
        /\ deqOn[c] = MAXTRIES + 1
        /\ \A e \in queue : e[1] # c

====
